---- MODULE Spec2Model ----
(***************************************************************************)
(* mongo-update-upsert-demo: the contact collection, the demo script       *)
(* (demo.js) and the HTTP handlers of server.js, as concurrent requests    *)
(* against one MongoDB collection.                                         *)
(***************************************************************************)
EXTENDS Integers, Sequences, FiniteSets, TLC

\* ------------------------------------------------------------------ bounds
NumProcs == 2      \* requests that can be in flight at once
MaxRequests == 2   \* requests started in one behaviour
MaxClock == 1      \* largest value the wall clock reaches
MaxSeqRequests == 3 \* requests started in one behaviour of SpecSeq

Procs == 1..NumProcs

\* ------------------------------------------------------------ JSON values
Null == <<>>
ObjectId(n) == <<"oid", n>>
\* ObjectId.prototype.toString(): the hex string of the identifier
toString(oid) == <<"hex", oid[2]>>

AARTI == "aarti@shade.org.in"
LATHA == "latha@example.com"
MISSING == "missing@example.com"
RAHUL == "rahul@example.com"

\* the emails the program handles, in lexicographic (sort {email: 1}) order
EmailOrder == <<AARTI, LATHA, MISSING, RAHUL>>

EmailRank(e) == CHOOSE i \in 1..Len(EmailOrder) : EmailOrder[i] = e

\* JavaScript truthiness of an optional string property
Has(o, f) == f \in DOMAIN o
Truthy(o, f) == Has(o, f) /\ o[f] # ""

\* { ...a, ...b }: the fields of b win
Merge(a, b) ==
  [f \in (DOMAIN a) \cup (DOMAIN b) |-> IF f \in DOMAIN b THEN b[f] ELSE a[f]]

Only(f, v) == [g \in {f} |-> v]
NoFields == [g \in {} |-> 0]

\* ----------------------------------------------------------- the database
VARIABLES
  store,      \* the documents of the collection, each with its _id
  indexes,    \* the index specifications of the collection
  nextId,     \* ObjectId generator
  clock,      \* the wall clock read by new Date()
  epoch,      \* history: number of deleteMany calls executed
  created     \* history: _id -> the document as first created, and the path

\* ----------------------------------------------------------- the requests
VARIABLES
  op,         \* the route a request slot is serving
  pc,         \* the await the handler is at
  body,       \* req.body of /upsert-contact
  query,      \* req.query of /list-contacts
  now,        \* the value of the handler's last new Date()
  plan,       \* what the server's upsert found when it looked for a match
  item,       \* index of the bulkWrite operation being executed
  client,     \* the MongoClient of the request
  err,        \* the error thrown inside the handler, if any
  report,     \* runUpdateUpsertDemo's report / the handler's result
  response,   \* the HTTP response sent
  steps,      \* history: the store operations the request has completed
  alone,      \* history: no other request acted since this one started
  raw,        \* the driver's result of the request's last write
  result,     \* the value withCol's callback returns
  seen,       \* history: the request's last upsert (email, plan, epochs)
  started     \* history: number of requests started

dbvars == <<store, indexes, nextId, clock, epoch, created>>
reqvars == <<op, pc, body, query, now, plan, item, client, err, report, response,
             steps, alone, raw, result, seen, started>>
vars == <<dbvars, reqvars>>

\* variant: the index created without { unique: true }
IndexSpecNotUnique == [key |-> "email", unique |-> FALSE]
\* col.createIndex({ email: 1 }, { unique: true })
IndexSpec == [key |-> "email", unique |-> TRUE]

UniqueEmail(ix) == \E i \in ix : i.key = "email" /\ i.unique

\* documents of S that satisfy an equality filter
Matching(S, filter) ==
  {d \in S : \A f \in DOMAIN filter : Has(d, f) /\ d[f] = filter[f]}

HasDuplicates(S) ==
  \E d1, d2 \in S : d1 # d2 /\ Has(d1, "email") /\ Has(d2, "email")
                      /\ d1.email = d2.email

\* the first match in natural (insertion) order
First(M) == CHOOSE d \in M : \A e \in M : d._id[2] <= e._id[2]

Update(filter, set, setOnInsert, upsert) ==
  [filter |-> filter, set |-> set, setOnInsert |-> setOnInsert, upsert |-> upsert]

\* The server's execution of updateOne(filter, {$set, $setOnInsert}, {upsert}).
\* planned is what the operation's query stage found ("update", "insert").
\* A planned insert that meets a document with the same unique key gets
\* DuplicateKey and is retried by the server as an update (MongoDB >= 4.2);
\* without a unique index the planned insert goes through.
\* Returns the new collection and the driver's UpdateResult.
updateOne(S, ix, u, planned, id) ==
  LET M == Matching(S, u.filter)
      blind == u.upsert /\ planned = "insert" /\ ~UniqueEmail(ix)
  IN IF M # {} /\ ~blind
     THEN LET d == First(M)
              n == Merge(d, u.set)
          IN [store |-> (S \ {d}) \cup {n},
              r |-> [matchedCount |-> 1,
                     modifiedCount |-> IF n = d THEN 0 ELSE 1,
                     upsertedCount |-> 0,
                     upsertedId |-> Null]]
     ELSE IF u.upsert
     THEN LET n == Merge(Merge(Merge(u.filter, u.set), u.setOnInsert),
                         Only("_id", ObjectId(id)))
          IN [store |-> S \cup {n},
              r |-> [matchedCount |-> 0, modifiedCount |-> 0,
                     upsertedCount |-> 1, upsertedId |-> ObjectId(id)]]
     ELSE [store |-> S,
           r |-> [matchedCount |-> 0, modifiedCount |-> 0,
                  upsertedCount |-> 0, upsertedId |-> Null]]

\* variant: modified taken from matchedCount
normalizeModifiedIsMatched(r) ==
  [matched |-> r.matchedCount,
   modified |-> r.matchedCount,
   upsertedId |-> IF r.upsertedId = Null THEN Null ELSE toString(r.upsertedId)]
\* variant: upsertedId read from a property the result does not have
normalizeDropsUpsertedId(r) ==
  [matched |-> r.matchedCount,
   modified |-> r.modifiedCount,
   upsertedId |-> Null]
\* demo.js normalize(r)
normalize(r) ==
  [matched |-> r.matchedCount,
   modified |-> r.modifiedCount,
   upsertedId |-> IF r.upsertedId = Null THEN Null ELSE toString(r.upsertedId)]

\* ------------------------------------------------- the writes of the code
\* demo.js: seed "Aarti" if not present
SeedUpdate ==
  Update(Only("email", AARTI), NoFields,
         [email |-> AARTI, name |-> "Aarti", city |-> "Chennai"], TRUE)

\* demo.js: A) UPDATE existing
StepAUpdate ==
  Update(Only("email", AARTI), Only("city", "Chennai (Adyar)"), NoFields, FALSE)

\* variant: step B called with { upsert: true }
StepBUpdateUpsert ==
  Update(Only("email", MISSING), Only("city", "Mumbai"), NoFields, TRUE)
\* demo.js: B) UPDATE missing (no upsert)
StepBUpdate ==
  Update(Only("email", MISSING), Only("city", "Mumbai"), NoFields, FALSE)

\* variant: createdAt written with $set
StepCUpdateSetsCreatedAt(t) ==
  Update(Only("email", MISSING), [city |-> "Mumbai", createdAt |-> t],
         Only("tags", <<"Prospect">>), TRUE)
\* demo.js: C) UPSERT missing
StepCUpdate(t) ==
  Update(Only("email", MISSING), Only("city", "Mumbai"),
         [createdAt |-> t, tags |-> <<"Prospect">>], TRUE)

\* variant: the sample fields written with $set
SampleOpsSet(t) ==
  << Update(Only("email", AARTI),
            [name |-> "Aarti", city |-> "Chennai",
             tags |-> <<"Volunteer">>, createdAt |-> t], NoFields, TRUE),
     Update(Only("email", RAHUL),
            [name |-> "Rahul", city |-> "Bengaluru",
             tags |-> <<"Donor">>, createdAt |-> t], NoFields, TRUE),
     Update(Only("email", LATHA),
            [name |-> "Latha", city |-> "Mumbai",
             tags |-> <<"Prospect">>, createdAt |-> t], NoFields, TRUE) >>
\* server.js /insert-sample: the three operations of the bulkWrite
SampleOps(t) ==
  << Update(Only("email", AARTI), NoFields,
            [email |-> AARTI, name |-> "Aarti", city |-> "Chennai",
             tags |-> <<"Volunteer">>, createdAt |-> t], TRUE),
     Update(Only("email", RAHUL), NoFields,
            [email |-> RAHUL, name |-> "Rahul", city |-> "Bengaluru",
             tags |-> <<"Donor">>, createdAt |-> t], TRUE),
     Update(Only("email", LATHA), NoFields,
            [email |-> LATHA, name |-> "Latha", city |-> "Mumbai",
             tags |-> <<"Prospect">>, createdAt |-> t], TRUE) >>

\* variant: createdAt written with $set
UpsertContactUpdateSetsCreatedAt(b, t) ==
  Update(Only("email", b.email),
         Merge(Merge(Merge(IF Truthy(b, "name") THEN Only("name", b.name) ELSE NoFields,
                           IF Truthy(b, "city") THEN Only("city", b.city) ELSE NoFields),
                     IF Has(b, "tags") THEN Only("tags", b.tags) ELSE NoFields),
               [updatedAt |-> t, createdAt |-> t]),
         NoFields, TRUE)
\* variant: $set without updatedAt
UpsertContactUpdateNoUpdatedAt(b, t) ==
  Update(Only("email", b.email),
         Merge(Merge(IF Truthy(b, "name") THEN Only("name", b.name) ELSE NoFields,
                     IF Truthy(b, "city") THEN Only("city", b.city) ELSE NoFields),
               IF Has(b, "tags") THEN Only("tags", b.tags) ELSE NoFields),
         Only("createdAt", t), TRUE)
\* server.js /upsert-contact: the update document built from req.body
UpsertContactUpdate(b, t) ==
  Update(Only("email", b.email),
         Merge(Merge(Merge(IF Truthy(b, "name") THEN Only("name", b.name) ELSE NoFields,
                           IF Truthy(b, "city") THEN Only("city", b.city) ELSE NoFields),
                     IF Has(b, "tags") THEN Only("tags", b.tags) ELSE NoFields),
               Only("updatedAt", t)),
         Only("createdAt", t), TRUE)

\* request bodies posted to /upsert-contact
Bodies ==
  { NoFields,
    [email |-> ""],
    [email |-> AARTI, city |-> "Pune"],
    [email |-> AARTI, name |-> "Asha", tags |-> <<"VIP">>],
    [email |-> MISSING, name |-> "", city |-> "Pune"],
    [email |-> MISSING, tags |-> <<>>] }

\* messages of the errors the driver throws (an Error may carry no message)
Messages == {"connect ECONNREFUSED", ""}

\* e?.message || "Unknown error"
ErrorText(m) == IF m = "" THEN "Unknown error" ELSE m

\* find({}, {projection: {_id: 0}}).sort({email: 1}).toArray()
Project(d) == [f \in (DOMAIN d) \ {"_id"} |-> d[f]]

Before(d, e) ==
  \/ EmailRank(d.email) < EmailRank(e.email)
  \/ EmailRank(d.email) = EmailRank(e.email) /\ d._id[2] < e._id[2]

RECURSIVE SortByEmail(_)
SortByEmail(S) ==
  IF S = {} THEN <<>>
  ELSE LET d == CHOOSE x \in S : \A y \in S \ {x} : Before(x, y)
       IN <<d>> \o SortByEmail(S \ {d})

find(S) == [i \in 1..Cardinality(S) |-> Project(SortByEmail(S)[i])]

\* ------------------------------------------- server.js, GET /list-contacts
\* Query-string values are sequences of characters. JavaScript numbers are
\* Num(n) or NaN.
Num(n) == <<"num", n>>
NaN == <<"NaN">>
IsNum(x) == x # NaN
Val(x) == x[2]

Digits == <<"0", "1", "2", "3", "4", "5", "6", "7", "8", "9">>
IsDigit(c) == \E i \in 1..Len(Digits) : Digits[i] = c
DigitVal(c) == (CHOOSE i \in 1..Len(Digits) : Digits[i] = c) - 1

RECURSIVE SkipSpaces(_)
SkipSpaces(cs) ==
  IF cs # <<>> /\ Head(cs) = " " THEN SkipSpaces(Tail(cs)) ELSE cs

\* the value of the longest prefix of digits of cs, read after acc
RECURSIVE ReadDigits(_, _)
ReadDigits(cs, acc) ==
  IF cs # <<>> /\ IsDigit(Head(cs))
  THEN ReadDigits(Tail(cs), acc * 10 + DigitVal(Head(cs)))
  ELSE acc

\* parseInt(cs, 10): leading white space, an optional sign, then digits;
\* NaN when no digit follows
parseInt(cs) ==
  LET t == SkipSpaces(cs)
      signed == t # <<>> /\ Head(t) \in {"+", "-"}
      ds == IF signed THEN Tail(t) ELSE t
  IN IF ds = <<>> \/ ~IsDigit(Head(ds)) THEN NaN
     ELSE IF signed /\ Head(t) = "-" THEN Num(0 - ReadDigits(ds, 0))
     ELSE Num(ReadDigits(ds, 0))

\* Math.max and Math.min: NaN when an argument is NaN
MathMax(a, b) ==
  IF a = NaN \/ b = NaN THEN NaN ELSE IF Val(a) >= Val(b) THEN a ELSE b
MathMin(a, b) ==
  IF a = NaN \/ b = NaN THEN NaN ELSE IF Val(a) <= Val(b) THEN a ELSE b

MaxPageSize == 100

\* req.query.x || dflt: an absent or empty parameter takes the default
OrDefault(q, f, dflt) == IF Has(q, f) /\ q[f] # <<>> THEN q[f] ELSE dflt

\* const page = Math.max(1, parseInt(req.query.page || "1", 10))
PageOf(q) == MathMax(Num(1), parseInt(OrDefault(q, "page", <<"1">>)))

\* const pageSize = Math.min(100, Math.max(1, parseInt(req.query.pageSize || "10", 10)))
PageSizeOf(q) ==
  MathMin(Num(MaxPageSize),
          MathMax(Num(1), parseInt(OrDefault(q, "pageSize", <<"1", "0">>))))

\* String.prototype.trim() on a value given as white space and text tokens
RECURSIVE DropTrailingSpaces(_)
DropTrailingSpaces(ts) ==
  IF ts # <<>> /\ ts[Len(ts)] = " "
  THEN DropTrailingSpaces(SubSeq(ts, 1, Len(ts) - 1)) ELSE ts
Trim(ts) == DropTrailingSpaces(SkipSpaces(ts))

\* the trimmed text; the values the model trims hold one text token
Text(ts) == IF Trim(ts) = <<>> THEN "" ELSE Trim(ts)[1]

\* (req.query.city || "").trim(), (req.query.tag || "").trim()
CityOf(q) == Text(OrDefault(q, "city", <<>>))
TagOf(q) == Text(OrDefault(q, "tag", <<>>))

\* the documents matching filter: city equal, tags containing the tag
ListMatching(S, q) ==
  {d \in S :
     /\ CityOf(q) # "" => (Has(d, "city") /\ d.city = CityOf(q))
     /\ TagOf(q) # "" => (Has(d, "tags") /\ \E i \in 1..Len(d.tags) : d.tags[i] = TagOf(q))}

Min(a, b) == IF a <= b THEN a ELSE b

\* find(filter, {projection}).sort({email: 1}).skip(n).limit(m).toArray();
\* limit 0 is no limit
Page(S, skip, limit) ==
  LET all == find(S)
      last == IF limit = 0 THEN Len(all) ELSE Min(Len(all), skip + limit)
  IN SubSeq(all, skip + 1, last)

\* query strings sent to /list-contacts
FewQueries ==
  { NoFields,
    [page |-> <<"2">>, pageSize |-> <<"2">>],
    [city |-> <<" ", "Mumbai">>, tag |-> <<"Prospect", " ">>],
    [page |-> <<"a">>, tag |-> <<"Volunteer">>] }

PageValues ==
  { <<>>, <<"0">>, <<"1">>, <<"2">>, <<"-", "3">>, <<"1", "0", "1">>,
    <<" ", "7">>, <<"2", ".", "5">>, <<"a", "b", "c">>, <<"3", "x">> }

Queries ==
  FewQueries
  \cup {[page |-> a, pageSize |-> b] : a \in PageValues, b \in PageValues}
  \cup {[pageSize |-> b] : b \in PageValues}
  \cup {[page |-> a, city |-> <<"Chennai">>] : a \in PageValues}

\* ------------------------------------------------------------------- Init
NoReport ==
  [updateExisting |-> Null, updateMissingNoUpsert |-> Null,
   upsertMissing |-> Null, finalDocs |-> <<>>]

NoBulk == [matchedCount |-> 0, modifiedCount |-> 0, upsertedCount |-> 0]

Init ==
  /\ store = {}
  /\ indexes = {}
  /\ nextId = 1
  /\ clock = 0
  /\ epoch = 0
  /\ created = <<>>
  /\ op = [p \in Procs |-> "none"]
  /\ pc = [p \in Procs |-> "idle"]
  /\ body = [p \in Procs |-> Null]
  /\ query = [p \in Procs |-> Null]
  /\ now = [p \in Procs |-> 0]
  /\ plan = [p \in Procs |-> "none"]
  /\ item = [p \in Procs |-> 0]
  /\ client = [p \in Procs |-> "none"]
  /\ err = [p \in Procs |-> <<>>]
  /\ report = [p \in Procs |-> NoReport]
  /\ response = [p \in Procs |-> Null]
  /\ steps = [p \in Procs |-> <<>>]
  /\ alone = [p \in Procs |-> TRUE]
  /\ raw = [p \in Procs |-> Null]
  /\ result = [p \in Procs |-> Null]
  /\ seen = [p \in Procs |-> Null]
  /\ started = 0

\* ---------------------------------------------------------------- helpers
InFlight(p) == pc[p] \notin {"idle", "done"}

\* a step of p on the collection: every other request in flight was interleaved
Touch(p) ==
  alone' = [q \in Procs |-> IF q # p /\ InFlight(q) THEN FALSE ELSE alone[q]]

Did(p, s) == steps' = [steps EXCEPT ![p] = Append(@, s)]

\* history of the documents created: the document as inserted, and by whom
Record(S, T, by) ==
  LET new == T \ S
  IN IF \E d \in new : d._id[2] = nextId
     THEN Append(created, [doc |-> (CHOOSE d \in new : d._id[2] = nextId), by |-> by])
     ELSE created

\* the database after p's updateOne u, recorded as created by `by`
Write(p, u, by) ==
  LET w == updateOne(store, indexes, u, plan[p], nextId)
  IN /\ store' = w.store
     /\ raw' = [raw EXCEPT ![p] = w.r]
     /\ nextId' = IF w.r.upsertedCount = 1 THEN nextId + 1 ELSE nextId
     /\ created' = Record(store, w.store, by)

\* the query stage of p's upsert u
Lookup(p, u) ==
  /\ plan' = [plan EXCEPT ![p] = IF Matching(store, u.filter) = {} THEN "insert" ELSE "update"]
  /\ seen' = [seen EXCEPT ![p] = [email |-> u.filter.email,
                                  planned |-> IF Matching(store, u.filter) = {}
                                              THEN "insert" ELSE "update",
                                  lookupEpoch |-> epoch, commitEpoch |-> -1,
                                  r |-> Null]]

\* history: p's upsert u was executed by the server
Committed(p, u) ==
  seen' = [seen EXCEPT ![p] =
    [@ EXCEPT !.commitEpoch = epoch,
              !.r = updateOne(store, indexes, u, plan[p], nextId).r]]

\* ------------------------------------------------------- starting requests
Fresh(p, route, next) ==
  /\ pc[p] \in {"idle", "done"}
  /\ started < MaxRequests
  /\ started' = started + 1
  /\ op' = [op EXCEPT ![p] = route]
  /\ pc' = [pc EXCEPT ![p] = next]
  /\ plan' = [plan EXCEPT ![p] = "none"]
  /\ item' = [item EXCEPT ![p] = 0]
  /\ client' = [client EXCEPT ![p] = "none"]
  /\ err' = [err EXCEPT ![p] = <<>>]
  /\ report' = [report EXCEPT ![p] = NoReport]
  /\ steps' = [steps EXCEPT ![p] = <<>>]
  /\ alone' = [alone EXCEPT ![p] = TRUE]
  /\ raw' = [raw EXCEPT ![p] = Null]
  /\ result' = [result EXCEPT ![p] = Null]
  /\ seen' = [seen EXCEPT ![p] = Null]
  /\ UNCHANGED dbvars

\* app.post("/run-demo")
StartRunDemo(p) ==
  /\ Fresh(p, "run-demo", "connect")
  /\ body' = [body EXCEPT ![p] = Null]
  /\ query' = [query EXCEPT ![p] = Null]
  /\ now' = [now EXCEPT ![p] = 0]
  /\ response' = [response EXCEPT ![p] = Null]

\* app.post("/clear-data")
StartClearData(p) ==
  /\ Fresh(p, "clear-data", "connect")
  /\ body' = [body EXCEPT ![p] = Null]
  /\ query' = [query EXCEPT ![p] = Null]
  /\ now' = [now EXCEPT ![p] = 0]
  /\ response' = [response EXCEPT ![p] = Null]

\* app.post("/insert-sample"): const now = new Date()
StartInsertSample(p) ==
  /\ Fresh(p, "insert-sample", "connect")
  /\ body' = [body EXCEPT ![p] = Null]
  /\ query' = [query EXCEPT ![p] = Null]
  /\ now' = [now EXCEPT ![p] = clock]
  /\ response' = [response EXCEPT ![p] = Null]

\* app.post("/upsert-contact"): 400 when email is missing or empty
StartUpsertContact(p) ==
  \E b \in Bodies :
    /\ body' = [body EXCEPT ![p] = b]
    /\ query' = [query EXCEPT ![p] = Null]
    /\ now' = [now EXCEPT ![p] = 0]
    /\ IF Truthy(b, "email")
       THEN /\ Fresh(p, "upsert-contact", "connect")
            /\ response' = [response EXCEPT ![p] = Null]
       ELSE /\ Fresh(p, "upsert-contact", "done")
            /\ response' = [response EXCEPT ![p] =
                 [status |-> 400, ok |-> FALSE, error |-> "email is required"]]

Goto(p, next) == pc' = [pc EXCEPT ![p] = next]

\* ---------------------------------------------- connection and index setup
\* await client.connect()
Connect(p) ==
  /\ pc[p] = "connect"
  /\ Goto(p, "createIndex")
  /\ client' = [client EXCEPT ![p] = "open"]
  /\ UNCHANGED <<dbvars, op, body, query, now, plan, item, err, report, response,
                 steps, alone, raw, result, seen, started>>

\* client.connect() throws: it is outside the try, the handler's catch answers
ConnectFail(p) ==
  \E m \in Messages :
    /\ pc[p] = "connect"
    /\ Goto(p, "done")
    /\ err' = [err EXCEPT ![p] = <<m>>]
    /\ response' = [response EXCEPT ![p] =
         [status |-> 500, ok |-> FALSE, error |-> ErrorText(m)]]
    /\ UNCHANGED <<dbvars, op, body, query, now, plan, item, client, report,
                   steps, alone, raw, result, seen, started>>

FirstStep(route) ==
  CASE route = "run-demo" -> "seed_lookup"
    [] route = "clear-data" -> "deleteMany"
    [] route = "insert-sample" -> "bulk_lookup"
    [] route = "upsert-contact" -> "upsert_lookup"
    [] route = "list-contacts" -> "list_count"

\* await col.createIndex({ email: 1 }, { unique: true }); a unique index
\* cannot be built over duplicate keys
createIndex(p) ==
  /\ pc[p] = "createIndex"
  /\ IF IndexSpec.unique /\ HasDuplicates(store)
     THEN /\ err' = [err EXCEPT ![p] = <<"E11000 duplicate key error">>]
          /\ Goto(p, "finally")
          /\ UNCHANGED <<indexes, steps, now, item, alone>>
     ELSE /\ indexes' = indexes \cup {IndexSpec}
          /\ Goto(p, FirstStep(op[p]))
          /\ Did(p, "createIndex")
          /\ Touch(p)
          /\ now' = [now EXCEPT ![p] = IF op[p] = "upsert-contact" THEN clock ELSE @]
          /\ item' = [item EXCEPT ![p] = IF op[p] = "insert-sample" THEN 1 ELSE @]
          /\ UNCHANGED err
  /\ UNCHANGED <<store, nextId, clock, epoch, created, op, body, query, plan, client,
                 report, response, raw, result, seen, started>>

\* ------------------------------------------------------- demo.js, the script
SeedLookup(p) ==
  /\ pc[p] = "seed_lookup"
  /\ Lookup(p, SeedUpdate)
  /\ Goto(p, "seed")
  /\ UNCHANGED <<dbvars, op, body, query, now, item, client, err, report, response,
                 steps, alone, raw, result, started>>

Seed(p) ==
  /\ pc[p] = "seed"
  /\ Write(p, SeedUpdate, "seed")
  /\ Committed(p, SeedUpdate)
  /\ Goto(p, "A")
  /\ Did(p, "seed")
  /\ Touch(p)
  /\ UNCHANGED <<indexes, clock, epoch, op, body, query, now, plan, item, client, err,
                 report, response, result, started>>

StepA(p) ==
  /\ pc[p] = "A"
  /\ Write(p, StepAUpdate, "A")
  /\ report' = [report EXCEPT ![p].updateExisting = normalize(raw'[p])]
  /\ Goto(p, "B")
  /\ Did(p, "A")
  /\ Touch(p)
  /\ UNCHANGED <<indexes, clock, epoch, op, body, query, now, plan, item, client, err,
                 response, result, seen, started>>

\* the arguments of step C, new Date() among them, are built when B returns
StepB(p) ==
  /\ pc[p] = "B"
  /\ Write(p, StepBUpdate, "B")
  /\ report' = [report EXCEPT ![p].updateMissingNoUpsert = normalize(raw'[p])]
  /\ now' = [now EXCEPT ![p] = clock]
  /\ Goto(p, "C_lookup")
  /\ Did(p, "B")
  /\ Touch(p)
  /\ UNCHANGED <<indexes, clock, epoch, op, body, query, plan, item, client, err,
                 response, result, seen, started>>

StepCLookup(p) ==
  /\ pc[p] = "C_lookup"
  /\ Lookup(p, StepCUpdate(now[p]))
  /\ Goto(p, "C")
  /\ UNCHANGED <<dbvars, op, body, query, now, item, client, err, report, response,
                 steps, alone, raw, result, started>>

StepC(p) ==
  /\ pc[p] = "C"
  /\ Write(p, StepCUpdate(now[p]), "C")
  /\ Committed(p, StepCUpdate(now[p]))
  /\ report' = [report EXCEPT ![p].upsertMissing = normalize(raw'[p])]
  /\ Goto(p, "snapshot")
  /\ Did(p, "C")
  /\ Touch(p)
  /\ UNCHANGED <<indexes, clock, epoch, op, body, query, now, plan, item, client, err,
                 response, result, started>>

Snapshot(p) ==
  /\ pc[p] = "snapshot"
  /\ report' = [report EXCEPT ![p].finalDocs = find(store)]
  /\ Goto(p, "finally")
  /\ Did(p, "snapshot")
  /\ UNCHANGED <<dbvars, op, body, query, now, plan, item, client, err, response,
                 alone, raw, result, seen, started>>

\* --------------------------------------------------- server.js, /clear-data
\* variant: deleteMany called with a filter
deleteManyFiltered(p) ==
  /\ pc[p] = "deleteMany"
  /\ store' = {d \in store : ~Has(d, "createdAt")}
  /\ epoch' = epoch + 1
  /\ result' = [result EXCEPT ![p] = [deleted |-> TRUE]]
  /\ Goto(p, "finally")
  /\ Did(p, "deleteMany")
  /\ Touch(p)
  /\ UNCHANGED <<indexes, nextId, clock, created, op, body, query, now, plan, item,
                 client, err, report, response, raw, seen, started>>
\* await col.deleteMany({}); return { deleted: true }
deleteMany(p) ==
  /\ pc[p] = "deleteMany"
  /\ store' = {}
  /\ epoch' = epoch + 1
  /\ result' = [result EXCEPT ![p] = [deleted |-> TRUE]]
  /\ Goto(p, "finally")
  /\ Did(p, "deleteMany")
  /\ Touch(p)
  /\ UNCHANGED <<indexes, nextId, clock, created, op, body, query, now, plan, item,
                 client, err, report, response, raw, seen, started>>

\* ------------------------------------------------ server.js, /insert-sample
\* col.bulkWrite(ops, { ordered: false }): the server runs the three upserts
BulkLookup(p) ==
  /\ pc[p] = "bulk_lookup"
  /\ Lookup(p, SampleOps(now[p])[item[p]])
  /\ Goto(p, "bulk")
  /\ UNCHANGED <<dbvars, op, body, query, now, item, client, err, report, response,
                 steps, alone, raw, result, started>>

BulkItem(p) ==
  /\ pc[p] = "bulk"
  /\ LET w == updateOne(store, indexes, SampleOps(now[p])[item[p]], plan[p], nextId)
         acc == IF raw[p] = Null THEN NoBulk ELSE raw[p]
     IN /\ store' = w.store
        /\ nextId' = IF w.r.upsertedCount = 1 THEN nextId + 1 ELSE nextId
        /\ created' = Record(store, w.store, "insert-sample")
        /\ raw' = [raw EXCEPT ![p] =
             [matchedCount |-> acc.matchedCount + w.r.matchedCount,
              modifiedCount |-> acc.modifiedCount + w.r.modifiedCount,
              upsertedCount |-> acc.upsertedCount + w.r.upsertedCount]]
  /\ Committed(p, SampleOps(now[p])[item[p]])
  /\ IF item[p] < Len(SampleOps(now[p]))
     THEN /\ item' = [item EXCEPT ![p] = @ + 1]
          /\ Goto(p, "bulk_lookup")
          /\ UNCHANGED steps
     ELSE /\ UNCHANGED item
          /\ Goto(p, "count")
          /\ Did(p, "bulkWrite")
  /\ Touch(p)
  /\ UNCHANGED <<indexes, clock, epoch, op, body, query, now, plan, client, err,
                 report, response, result, started>>

countDocuments(p) ==
  /\ pc[p] = "count"
  /\ result' = [result EXCEPT ![p] =
       [bulk |-> [matched |-> raw[p].matchedCount,
                  modified |-> raw[p].modifiedCount,
                  upserts |-> raw[p].upsertedCount],
        total |-> Cardinality(store)]]
  /\ Goto(p, "finally")
  /\ Did(p, "countDocuments")
  /\ UNCHANGED <<dbvars, op, body, query, now, plan, item, client, err, report,
                 response, alone, raw, seen, started>>

\* ----------------------------------------------- server.js, /upsert-contact
UpsertLookup(p) ==
  /\ pc[p] = "upsert_lookup"
  /\ Lookup(p, UpsertContactUpdate(body[p], now[p]))
  /\ Goto(p, "upsert")
  /\ UNCHANGED <<dbvars, op, body, query, now, item, client, err, report, response,
                 steps, alone, raw, result, started>>

UpsertContact(p) ==
  /\ pc[p] = "upsert"
  /\ Write(p, UpsertContactUpdate(body[p], now[p]), "upsert-contact")
  /\ Committed(p, UpsertContactUpdate(body[p], now[p]))
  /\ result' = [result EXCEPT ![p] =
       [matched |-> raw'[p].matchedCount, modified |-> raw'[p].modifiedCount,
        upsertedId |-> raw'[p].upsertedId]]
  /\ Goto(p, "finally")
  /\ Did(p, "updateOne")
  /\ Touch(p)
  /\ UNCHANGED <<indexes, clock, epoch, op, body, query, now, plan, item, client, err,
                 report, response, started>>

\* ------------------------------------------------ server.js, /list-contacts
\* app.get("/list-contacts"): page, pageSize, city and tag are read from
\* req.query before withCol is entered
StartListContacts(p, Q) ==
  \E q \in Q :
    /\ Fresh(p, "list-contacts", "connect")
    /\ query' = [query EXCEPT ![p] = q]
    /\ body' = [body EXCEPT ![p] = Null]
    /\ now' = [now EXCEPT ![p] = 0]
    /\ response' = [response EXCEPT ![p] = Null]

\* const total = await col.countDocuments(filter)
ListCount(p) ==
  /\ pc[p] = "list_count"
  /\ result' = [result EXCEPT ![p] =
       [total |-> Cardinality(ListMatching(store, query[p]))]]
  /\ Goto(p, "list_find")
  /\ Did(p, "countDocuments")
  /\ UNCHANGED <<dbvars, op, body, query, now, plan, item, client, err, report,
                 response, alone, raw, seen, started>>

\* (page - 1) * pageSize
SkipOf(q) ==
  IF IsNum(PageOf(q)) /\ IsNum(PageSizeOf(q))
  THEN Num((Val(PageOf(q)) - 1) * Val(PageSizeOf(q))) ELSE NaN

\* a NaN skip or limit reaches the server, which rejects it or reads it as 0
AsInt(x) == IF IsNum(x) THEN Val(x) ELSE 0

\* const docs = await col.find(filter, ...).sort().skip().limit().toArray()
ListFind(p) ==
  /\ pc[p] = "list_find"
  /\ result' = [result EXCEPT ![p] =
       [page |-> PageOf(query[p]), pageSize |-> PageSizeOf(query[p]),
        total |-> result[p].total,
        docs |-> Page(ListMatching(store, query[p]),
                      AsInt(SkipOf(query[p])), AsInt(PageSizeOf(query[p])))]]
  /\ Goto(p, "finally")
  /\ Did(p, "find")
  /\ UNCHANGED <<dbvars, op, body, query, now, plan, item, client, err, report,
                 response, alone, raw, seen, started>>

\* the server rejects a find whose skip or limit is NaN
ListFindRejected(p) ==
  /\ pc[p] = "list_find"
  /\ ~IsNum(SkipOf(query[p])) \/ ~IsNum(PageSizeOf(query[p]))
  /\ err' = [err EXCEPT ![p] = <<"Failed to parse: skip">>]
  /\ Goto(p, "finally")
  /\ UNCHANGED <<dbvars, op, body, query, now, plan, item, client, report,
                 response, steps, alone, raw, result, seen, started>>

\* ----------------------------------------------------- failure and release
TrySteps ==
  {"createIndex", "seed_lookup", "seed", "A", "B", "C_lookup", "C", "snapshot",
   "deleteMany", "bulk_lookup", "bulk", "count", "upsert_lookup", "upsert",
   "list_count", "list_find"}

\* the awaited call throws (the store is unreachable): control goes to finally
Fail(p) ==
  \E m \in Messages :
    /\ pc[p] \in TrySteps
    /\ err' = [err EXCEPT ![p] = <<m>>]
    /\ Goto(p, "finally")
    /\ UNCHANGED <<dbvars, op, body, query, now, plan, item, client, report, response,
                   steps, alone, raw, result, seen, started>>

\* variant: the demo's error is swallowed and the partial report returned
FinallyPartialReport(p) ==
  /\ pc[p] = "finally"
  /\ client' = [client EXCEPT ![p] = "closed"]
  /\ response' = [response EXCEPT ![p] =
       IF op[p] = "run-demo"
       THEN [status |-> 200, ok |-> TRUE, results |-> report[p]]
       ELSE IF err[p] # <<>>
       THEN [status |-> 500, ok |-> FALSE, error |-> ErrorText(err[p][1])]
       ELSE [status |-> 200, ok |-> TRUE, result |-> result[p]]]
  /\ Goto(p, "done")
  /\ UNCHANGED <<dbvars, op, body, query, now, plan, item, err, report,
                 steps, alone, raw, result, seen, started>>
\* variant: client.close() on the success path only, not in a finally
FinallyCloseOnSuccess(p) ==
  /\ pc[p] = "finally"
  /\ client' = [client EXCEPT ![p] = IF err[p] = <<>> THEN "closed" ELSE @]
  /\ response' = [response EXCEPT ![p] =
       IF err[p] # <<>>
       THEN [status |-> 500, ok |-> FALSE, error |-> ErrorText(err[p][1])]
       ELSE IF op[p] = "run-demo"
       THEN [status |-> 200, ok |-> TRUE, results |-> report[p]]
       ELSE [status |-> 200, ok |-> TRUE, result |-> result[p]]]
  /\ Goto(p, "done")
  /\ UNCHANGED <<dbvars, op, body, query, now, plan, item, err, report,
                 steps, alone, raw, result, seen, started>>
\* finally { await client.close() }, then the handler's res.json / catch
Finally(p) ==
  /\ pc[p] = "finally"
  /\ client' = [client EXCEPT ![p] = "closed"]
  /\ response' = [response EXCEPT ![p] =
       IF err[p] # <<>>
       THEN [status |-> 500, ok |-> FALSE, error |-> ErrorText(err[p][1])]
       ELSE IF op[p] = "run-demo"
       THEN [status |-> 200, ok |-> TRUE, results |-> report[p]]
       ELSE [status |-> 200, ok |-> TRUE, result |-> result[p]]]
  /\ Goto(p, "done")
  /\ UNCHANGED <<dbvars, op, body, query, now, plan, item, err, report,
                 steps, alone, raw, result, seen, started>>

\* time passes
Tick ==
  /\ clock < MaxClock
  /\ clock' = clock + 1
  /\ UNCHANGED <<store, indexes, nextId, epoch, created, reqvars>>

\* the steps of the request in slot p; Q: the query strings it may receive
Handlers(p, Q) ==
  \/ StartRunDemo(p) \/ StartClearData(p) \/ StartInsertSample(p)
  \/ StartUpsertContact(p) \/ StartListContacts(p, Q)
  \/ Connect(p) \/ ConnectFail(p) \/ createIndex(p)
  \/ SeedLookup(p) \/ Seed(p) \/ StepA(p) \/ StepB(p)
  \/ StepCLookup(p) \/ StepC(p) \/ Snapshot(p)
  \/ deleteMany(p)
  \/ BulkLookup(p) \/ BulkItem(p) \/ countDocuments(p)
  \/ UpsertLookup(p) \/ UpsertContact(p)
  \/ ListCount(p) \/ ListFind(p) \/ ListFindRejected(p)
  \/ Fail(p) \/ Finally(p)

Next ==
  \/ Tick
  \/ \E p \in Procs : Handlers(p, FewQueries)

Spec == Init /\ [][Next]_vars

\* one request at a time, MaxSeqRequests of them
InitSeq ==
  /\ store = {}
  /\ indexes = {}
  /\ nextId = 1
  /\ clock = 0
  /\ epoch = 0
  /\ created = <<>>
  /\ op = [p \in Procs |-> "none"]
  /\ pc = [p \in Procs |-> "idle"]
  /\ body = [p \in Procs |-> Null]
  /\ query = [p \in Procs |-> Null]
  /\ now = [p \in Procs |-> 0]
  /\ plan = [p \in Procs |-> "none"]
  /\ item = [p \in Procs |-> 0]
  /\ client = [p \in Procs |-> "none"]
  /\ err = [p \in Procs |-> <<>>]
  /\ report = [p \in Procs |-> NoReport]
  /\ response = [p \in Procs |-> Null]
  /\ steps = [p \in Procs |-> <<>>]
  /\ alone = [p \in Procs |-> TRUE]
  /\ raw = [p \in Procs |-> Null]
  /\ result = [p \in Procs |-> Null]
  /\ seen = [p \in Procs |-> Null]
  /\ started = MaxRequests - MaxSeqRequests

NextSeq ==
  \/ Tick
  \/ Handlers(1, FewQueries)

SpecSeq == InitSeq /\ [][NextSeq]_vars

\* one request at a time, /list-contacts with every query string of Queries
NextList ==
  \/ Tick
  \/ Handlers(1, Queries)

SpecList == Init /\ [][NextList]_vars

TypeOK ==
  /\ \A d \in store : Has(d, "_id") /\ Has(d, "email")
  /\ nextId = Len(created) + 1
  /\ clock \in 0..MaxClock

\* ================================================================= claims
\* the update a request is executing at its current await
CurrentUpdate(p) ==
  CASE pc[p] \in {"seed_lookup", "seed"} -> SeedUpdate
    [] pc[p] = "A" -> StepAUpdate
    [] pc[p] = "B" -> StepBUpdate
    [] pc[p] \in {"C_lookup", "C"} -> StepCUpdate(now[p])
    [] pc[p] \in {"bulk_lookup", "bulk"} -> SampleOps(now[p])[item[p]]
    [] pc[p] \in {"upsert_lookup", "upsert"} -> UpsertContactUpdate(body[p], now[p])

\* p's awaited call returned in this step (it did not throw)
Returns(p, at) == pc[p] \in at /\ pc'[p] # pc[p] /\ err'[p] = <<>>

WithEmail(S, e) == {d \in S : d.email = e}

\* two upserts of one email raced: both looked while no document had it, and
\* both were executed with no clear-data from the first look on
Raced(p, q) ==
  /\ p # q /\ seen[p] # Null /\ seen[q] # Null
  /\ seen[p].email = seen[q].email
  /\ seen[p].planned = "insert" /\ seen[q].planned = "insert"
  /\ seen[p].commitEpoch = seen[p].lookupEpoch
  /\ seen[q].commitEpoch = seen[q].lookupEpoch
  /\ seen[p].commitEpoch = seen[q].commitEpoch

\* C1: in every reachable state there is at most one Contact document per
\* distinct email value.
C1_OneContactPerEmail ==
  \A d1, d2 \in store : d1.email = d2.email => d1 = d2

\* two upserts of the same email raced and the collection holds one document
C1_Witness ==
  \E p, q \in Procs :
    /\ Raced(p, q)
    /\ epoch = seen[p].commitEpoch
    /\ Cardinality(WithEmail(store, seen[p].email)) = 1

\* C2: a ConditionalUpdate (demo steps A and B) whose filter matches no
\* document returns matched=0, modified=0, upsertedId null and leaves the
\* collection exactly as it was.
C2_UpdateOfMissingChangesNothing ==
  [][\A p \in Procs :
       (Returns(p, {"A", "B"}) /\ Matching(store, CurrentUpdate(p).filter) = {})
       => /\ store' = store
          /\ nextId' = nextId
          /\ LET res == IF pc[p] = "A" THEN report'[p].updateExisting
                        ELSE report'[p].updateMissingNoUpsert
             IN res = [matched |-> 0, modified |-> 0, upsertedId |-> Null]]_vars

\* step B returned for a filter nothing matched, and nothing was created
C2_Witness ==
  \E p \in Procs :
    /\ pc[p] = "C_lookup"
    /\ report[p].updateMissingNoUpsert =
         [matched |-> 0, modified |-> 0, upsertedId |-> Null]
    /\ WithEmail(store, MISSING) = {}
    /\ store # {}

\* C3: an Upsert (demo seed, demo step C, /upsert-contact) returns an
\* upsertedId exactly when no document matched its filter when it was
\* executed; then the document count grows by 1 and matched=0; otherwise the
\* count is unchanged.
C3_UpsertedIdIffNoMatch ==
  [][\A p \in Procs :
       Returns(p, {"seed", "C", "upsert"})
       => LET none == Matching(store, CurrentUpdate(p).filter) = {}
              ret == IF pc[p] = "C" THEN report'[p].upsertMissing
                     ELSE IF pc[p] = "upsert" THEN result'[p]
                     ELSE [matched |-> raw'[p].matchedCount,
                           upsertedId |-> raw'[p].upsertedId]
          IN /\ (ret.upsertedId # Null) <=> none
             /\ none => /\ Cardinality(store') = Cardinality(store) + 1
                        /\ ret.matched = 0
             /\ ~none => /\ Cardinality(store') = Cardinality(store)
                         /\ ret.matched = 1]_vars

\* step C of one run created the document, step C of another run matched it
C3_Witness ==
  \E p, q \in Procs :
    /\ report[p].upsertMissing # Null /\ report[p].upsertMissing.upsertedId # Null
    /\ report[q].upsertMissing # Null /\ report[q].upsertMissing.upsertedId = Null
    /\ report[q].upsertMissing.matched = 1

\* the writes p's step of this transition made with $set, if it made one
WrittenBy(p) ==
  IF Returns(p, {"seed", "A", "B", "C", "bulk", "upsert"})
  THEN DOMAIN CurrentUpdate(p).set ELSE {}

\* the fields the code writes with $setOnInsert, by the path that created d
InsertOnly(by) ==
  CASE by = "seed" -> {"email", "name", "city"}
    [] by = "C" -> {"createdAt", "tags"}
    [] by = "insert-sample" -> {"email", "name", "city", "tags", "createdAt"}
    [] by = "upsert-contact" -> {"createdAt"}

CreatedAs(d) == created[d._id[2]]

\* C4 as claimed: every field written as insert-only at creation keeps its
\* creation-time value in every later state.
C4_InsertOnlyFieldsNeverChange ==
  \A d \in store :
    \A f \in InsertOnly(CreatedAs(d).by) : Has(d, f) /\ d[f] = CreatedAs(d).doc[f]

\* C4 amended: an insert-only field of a stored document changes only in a
\* step whose $set names it, and that is never email or createdAt: name, city
\* and tags are overwritten by the $set of step A or /upsert-contact, and the
\* $setOnInsert of an upsert that matches changes nothing.
C4_InsertOnlyFieldsChangeOnlyBySet ==
  [][\A d \in store : \A e \in store' :
       e._id = d._id
       => \A f \in InsertOnly(CreatedAs(d).by) \cap DOMAIN d :
            /\ Has(e, f)
            /\ e[f] # d[f] => /\ f \in {"name", "city", "tags"}
                              /\ \E p \in Procs : f \in WrittenBy(p)]_vars

\* a document of insert-sample whose city was overwritten later and whose
\* email and createdAt are those of its creation
C4_Witness ==
  \E d \in store :
    /\ CreatedAs(d).by = "insert-sample"
    /\ d.city # CreatedAs(d).doc.city
    /\ d.email = CreatedAs(d).doc.email
    /\ d.createdAt = CreatedAs(d).doc.createdAt

\* C5 as claimed: every stored document has a createdAt, the one set when it
\* was created.
C5_EveryDocumentHasCreatedAt ==
  \A d \in store :
    /\ Has(d, "createdAt")
    /\ Has(CreatedAs(d).doc, "createdAt")
    /\ d.createdAt = CreatedAs(d).doc.createdAt

\* C5 amended: a document created by demo step C, /upsert-contact or
\* insert-sample carries createdAt from its creation on; a document created
\* by the demo seed has none; no later operation assigns createdAt: a stored
\* document has createdAt exactly if it had one when created, with that value.
C5_CreatedAtFixedAtCreation ==
  \A d \in store :
    /\ Has(d, "createdAt") <=> CreatedAs(d).by # "seed"
    /\ Has(d, "createdAt") <=> Has(CreatedAs(d).doc, "createdAt")
    /\ Has(d, "createdAt") => d.createdAt = CreatedAs(d).doc.createdAt

\* a document created with createdAt that a later write, at a later time,
\* updated
C5_Witness ==
  \E d \in store :
    /\ Has(d, "createdAt") /\ Has(d, "updatedAt")
    /\ d.createdAt = CreatedAs(d).doc.createdAt
    /\ d.createdAt < d.updatedAt

\* the document the write of p's step applied to, in the collection after it
Affected(p) == WithEmail(store', CurrentUpdate(p).filter.email)

\* C6 as claimed: after step A, step C and /upsert-contact the document
\* written has updatedAt set to the time of the write.
C6_EveryWriteSetsUpdatedAt ==
  [][\A p \in Procs :
       Returns(p, {"A", "C", "upsert"})
       => \A d \in Affected(p) : Has(d, "updatedAt") /\ d.updatedAt = now[p]]_vars

\* C6 amended: every /upsert-contact write sets updatedAt of the document it
\* writes to the time the handler read when it built the update; demo steps
\* A and C write city and leave updatedAt as it was (absent on a document
\* they create).
C6_OnlyUpsertContactSetsUpdatedAt ==
  [][\A p \in Procs :
       /\ Returns(p, {"upsert"})
          => /\ Affected(p) # {}
             /\ \A d \in Affected(p) : Has(d, "updatedAt") /\ d.updatedAt = now[p]
       /\ Returns(p, {"A", "C"})
          => \A d \in Affected(p) :
               /\ Has(d, "updatedAt") <=> \E e \in store : e._id = d._id /\ Has(e, "updatedAt")
               /\ \A e \in store : e._id = d._id /\ Has(e, "updatedAt")
                                   => d.updatedAt = e.updatedAt]_vars

\* /upsert-contact matched and modified a document, which carries the
\* handler's time as updatedAt, later than its creation
C6_Witness ==
  \E p \in Procs :
    /\ op[p] = "upsert-contact" /\ pc[p] = "finally" /\ err[p] = <<>>
    /\ result[p].matched = 1 /\ result[p].modified = 1
    /\ \E d \in WithEmail(store, body[p].email) :
         d.updatedAt = now[p] /\ Has(d, "createdAt") /\ d.createdAt < d.updatedAt

\* C7: when upserts of the same email race on a collection without that
\* email, exactly one of them creates the document and every other one
\* completes as an update reporting matched=1 and no upsertedId.
C7_RacingUpsertsCreateOnce ==
  \A p, q \in Procs :
    Raced(p, q)
    => /\ (seen[p].r.upsertedId # Null) # (seen[q].r.upsertedId # Null)
       /\ seen[p].r.upsertedId = Null
          => seen[p].r.matchedCount = 1 /\ seen[p].r.upsertedCount = 0
       /\ epoch = seen[p].commitEpoch
          => Cardinality(WithEmail(store, seen[p].email)) = 1

\* two /upsert-contact calls raced: one created, the other matched
C7_Witness ==
  \E p, q \in Procs :
    /\ Raced(p, q)
    /\ op[p] = "upsert-contact" /\ op[q] = "upsert-contact"
    /\ seen[p].r.upsertedId # Null
    /\ seen[q].r.matchedCount = 1 /\ seen[q].r.upsertedId = Null
    /\ response[p] # Null /\ response[p].status = 200
    /\ response[q] # Null /\ response[q].status = 200

\* C8: in every run of the demo the filter of steps B and C matches nothing:
\* step B reports {0, 0, null} and step C reports matched=0, modified=0 and a
\* new upsertedId.
C8_DemoFilterNeverMatches ==
  \A p \in Procs :
    op[p] = "run-demo"
    => /\ report[p].updateMissingNoUpsert # Null
          => report[p].updateMissingNoUpsert =
               [matched |-> 0, modified |-> 0, upsertedId |-> Null]
       /\ report[p].upsertMissing # Null
          => /\ report[p].upsertMissing.matched = 0
             /\ report[p].upsertMissing.modified = 0
             /\ report[p].upsertMissing.upsertedId # Null

\* C9: in a run of the demo that no other request interleaves with, step A
\* reports matched=1, and modified=1 exactly when the stored city was not
\* "Chennai (Adyar)"; the same update applied again reports matched=1,
\* modified=0 and leaves the collection unchanged.
C9_StepAIsIdempotent ==
  [][\A p \in Procs :
       (Returns(p, {"A"}) /\ alone[p])
       => LET before == WithEmail(store, AARTI)
              res == report'[p].updateExisting
              again == updateOne(store', indexes', StepAUpdate, plan'[p], nextId')
          IN /\ Cardinality(before) = 1
             /\ res.matched = 1
             /\ res.upsertedId = Null
             /\ res.modified =
                  IF \E d \in before : Has(d, "city") /\ d.city = "Chennai (Adyar)"
                  THEN 0 ELSE 1
             /\ normalize(again.r) = [matched |-> 1, modified |-> 0, upsertedId |-> Null]
             /\ again.store = store']_vars

\* step A of an uninterleaved run found the city already set: modified=0
C9_Witness ==
  \E p \in Procs :
    /\ op[p] = "run-demo" /\ pc[p] = "B" /\ alone[p]
    /\ report[p].updateExisting = [matched |-> 1, modified |-> 0, upsertedId |-> Null]

\* C10: when a step of the demo script fails, the script executes no later
\* step, what the completed steps wrote stays in the collection, no report
\* is returned and /run-demo answers 500 {ok: false, error: <message>}.
C10_FailedDemoAbortsWith500 ==
  [][\A p \in Procs :
       (op'[p] = "run-demo" /\ err'[p] # <<>>)
       => /\ steps'[p] = steps[p]
          /\ report'[p] = report[p]
          /\ pc'[p] \in {"finally", "done"}
          /\ pc'[p] # pc[p] => store' = store /\ created' = created
          /\ pc'[p] = "done"
             => response'[p] = [status |-> 500, ok |-> FALSE,
                                error |-> ErrorText(err'[p][1])]]_vars

\* the demo failed at step B: seed and step A stay written, the answer is 500
C10_Witness ==
  \E p \in Procs :
    /\ op[p] = "run-demo" /\ pc[p] = "done" /\ err[p] # <<>>
    /\ steps[p] = <<"createIndex", "seed", "A">>
    /\ response[p].status = 500
    /\ report[p].updateExisting # Null /\ report[p].updateExisting.modified = 1
    /\ \E d \in WithEmail(store, AARTI) : d.city = "Chennai (Adyar)"

\* C11: a connection acquired for a unit of work (withCol,
\* runUpdateUpsertDemo) is released exactly once before the unit of work
\* returns or throws, on success and on the failure of index creation or of
\* any store operation; no request finishes holding a connection it opened.
C11_ConnectionReleasedOnce ==
  [][\A p \in Procs :
       /\ pc'[p] = "done" => client'[p] # "open"
       /\ pc'[p] \in TrySteps \cup {"finally"} => client'[p] = "open"
       /\ (client[p] = "open" /\ client'[p] # "open")
          => /\ client'[p] = "closed"
             /\ pc[p] = "finally" /\ pc'[p] = "done"
       /\ (client[p] = "closed" /\ client'[p] # "closed")
          => client'[p] = "none" /\ pc'[p] \in {"connect", "done"}
       /\ (client[p] # "open" /\ client'[p] = "open")
          => client[p] = "none" /\ pc[p] = "connect"]_vars

\* index creation failed after the connection was opened: it is closed, 500
C11_Witness ==
  \E p \in Procs :
    /\ pc[p] = "done" /\ client[p] = "closed"
    /\ err[p] # <<>> /\ steps[p] = <<>>
    /\ response[p].status = 500

InRange(x, lo, hi) == IsNum(x) /\ lo <= Val(x) /\ Val(x) <= hi

\* C12: for every value of the page and pageSize query parameters the page
\* number used and returned is an integer >= 1 and the page size used and
\* returned is an integer in [1, 100].
C12_PageAndPageSizeClamped ==
  \A p \in Procs :
    op[p] = "list-contacts"
    => /\ IsNum(PageOf(query[p])) /\ Val(PageOf(query[p])) >= 1
       /\ InRange(PageSizeOf(query[p]), 1, MaxPageSize)
       /\ (pc[p] = "done" /\ response[p].status = 200)
          => /\ IsNum(response[p].result.page)
             /\ Val(response[p].result.page) >= 1
             /\ InRange(response[p].result.pageSize, 1, MaxPageSize)

\* the request was answered without a failure of the connection
Served(p) == pc[p] = "done" /\ (err[p] = <<>> \/ err[p][1] \notin Messages)

\* the positions (page-1)*pageSize .. page*pageSize-1 of the matching
\* documents in email order; no position compares with NaN
ExpectedDocs(S, q) ==
  IF IsNum(PageOf(q)) /\ IsNum(PageSizeOf(q))
  THEN LET all == find(ListMatching(S, q))
           from == (Val(PageOf(q)) - 1) * Val(PageSizeOf(q))
           to == Val(PageOf(q)) * Val(PageSizeOf(q)) - 1
       IN SubSeq(all, from + 1, Min(to + 1, Len(all)))
  ELSE <<>>

\* C13: /list-contacts returns total, the number of stored documents that
\* match the filter, and docs, the elements at positions (page-1)*pageSize
\* to page*pageSize-1 of the matching documents sorted by email, without
\* _id (requests run one at a time).
C13_ListReturnsTotalAndPage ==
  \A p \in Procs :
    (op[p] = "list-contacts" /\ Served(p))
    => /\ response[p].status = 200
       /\ response[p].result.total = Cardinality(ListMatching(store, query[p]))
       /\ response[p].result.docs = ExpectedDocs(store, query[p])
       /\ \A i \in 1..Len(response[p].result.docs) :
            ~Has(response[p].result.docs[i], "_id")

\* for numeric page and pageSize the paging is as C13 states (requests run
\* one at a time)
ListPagesNumericQuery ==
  \A p \in Procs :
    (op[p] = "list-contacts" /\ Served(p)
       /\ IsNum(PageOf(query[p])) /\ IsNum(PageSizeOf(query[p])))
    => /\ response[p].status = 200
       /\ response[p].result.total = Cardinality(ListMatching(store, query[p]))
       /\ response[p].result.docs = ExpectedDocs(store, query[p])

\* the second page of size 2 of the three sample contacts
ListPagesWitness ==
  \E p \in Procs :
    /\ op[p] = "list-contacts" /\ Served(p)
    /\ query[p] = [page |-> <<"2">>, pageSize |-> <<"2">>]
    /\ response[p].result.total = 3
    /\ Len(response[p].result.docs) = 1
    /\ response[p].result.docs[1].email = RAHUL

\* the three upserts of insert-sample applied in order to S: the collection
\* and the counts of the BulkWriteResult
RECURSIVE bulkWrite(_, _, _, _, _)
bulkWrite(S, ix, ops, id, acc) ==
  IF ops = <<>> THEN [store |-> S, r |-> acc]
  ELSE LET planned == IF Matching(S, Head(ops).filter) = {} THEN "insert" ELSE "update"
           w == updateOne(S, ix, Head(ops), planned, id)
       IN bulkWrite(w.store, ix, Tail(ops), id + w.r.upsertedCount,
                    [matchedCount |-> acc.matchedCount + w.r.matchedCount,
                     modifiedCount |-> acc.modifiedCount + w.r.modifiedCount,
                     upsertedCount |-> acc.upsertedCount + w.r.upsertedCount])

\* C14: after clear-data completes, with no other request interleaved, the
\* collection is empty and the response is {deleted: true}; the next Upsert,
\* on any email, reports matched=0 and an upsertedId and leaves exactly one
\* document.
C14_ClearThenUpsertCreates ==
  [][\A p \in Procs :
       /\ Returns(p, {"deleteMany"})
          => store' = {} /\ result'[p] = [deleted |-> TRUE]
       /\ (op[p] = "clear-data" /\ pc[p] = "finally" /\ err[p] = <<>>
             /\ pc'[p] = "done")
          => /\ store' = {}
             /\ response'[p] =
                  [status |-> 200, ok |-> TRUE, result |-> [deleted |-> TRUE]]
       /\ (Returns(p, {"seed", "C", "upsert", "bulk"}) /\ epoch > 0 /\ store = {})
          => /\ seen'[p].r.matchedCount = 0
             /\ seen'[p].r.upsertedId # Null
             /\ Cardinality(store') = 1
             /\ \A d \in store' : d.email = CurrentUpdate(p).filter.email]_vars

\* clear-data emptied a collection that held documents, and /upsert-contact
\* then created the only document
C14_Witness ==
  \E p \in Procs :
    /\ epoch = 1 /\ Len(created) >= 2 /\ Cardinality(store) = 1
    /\ op[p] = "upsert-contact" /\ pc[p] = "done" /\ err[p] = <<>>
    /\ response[p].result.matched = 0
    /\ response[p].result.upsertedId = ObjectId(Len(created))

\* C15: insert-sample, with no other request interleaved, changes no
\* existing contact: modified=0, matched+upserts=3, every document present
\* before is unchanged, total is the document count after the call and at
\* least 3; insert-sample again reports matched=3, modified=0, upserts=0 and
\* leaves the collection unchanged.
C15_InsertSampleChangesNothingExisting ==
  [][\A p \in Procs :
       /\ Returns(p, {"bulk"}) => \A d \in store : d \in store'
       /\ Returns(p, {"count"})
          => LET b == result'[p].bulk
                 again == bulkWrite(store', indexes', SampleOps(clock'), nextId', NoBulk)
             IN /\ b.modified = 0
                /\ b.matched + b.upserts = 3
                /\ result'[p].total = Cardinality(store')
                /\ result'[p].total >= 3
                /\ again.store = store'
                /\ again.r = [matchedCount |-> 3, modifiedCount |-> 0,
                              upsertedCount |-> 0]]_vars

\* insert-sample run again at a later time: all three matched, none modified
C15_Witness ==
  \E p \in Procs :
    /\ op[p] = "insert-sample" /\ pc[p] = "done" /\ err[p] = <<>>
    /\ response[p].result.bulk = [matched |-> 3, modified |-> 0, upserts |-> 0]
    /\ response[p].result.total = 3
    /\ Len(created) = 3
    /\ \A i \in 1..3 : created[i].by = "insert-sample" /\ created[i].doc.createdAt < now[p]

====
